---- MODULE Spec2Model ----
(***************************************************************************)
(* Criminal Management System: the REST boundary (server/routes.ts) over   *)
(* the relational record store (server/storage.ts, DatabaseStorage) and    *)
(* the tables, unique indexes and foreign key of the migration.            *)
(*                                                                         *)
(* Encoding of values:                                                     *)
(*   - an optional result (T | undefined) is a set: {} or {value};         *)
(*   - a stored or supplied password string is a tuple: <<"plain", p>> is  *)
(*     the text p itself, <<"$2b$", cost, salt, p>> is the bcrypt string   *)
(*     computed from p with that cost and salt;                            *)
(*   - names, report numbers and descriptions are sequences of one-letter  *)
(*     strings, NullText is SQL NULL for such a column;                    *)
(*   - a patch (Partial<T>, the request body of PUT) is a set of           *)
(*     <<field, value>> pairs, at most one pair per field;                 *)
(*   - identifiers are the integers 1, 2, ... in order of generation; 0 is *)
(*     a NULL reference; timestamps are clock ticks, 0 is a NULL timestamp.*)
(***************************************************************************)
EXTENDS Integers, Sequences, FiniteSets, TLC

VARIABLES
    users,          \* table users: id -> row
    criminals,      \* table criminal_records: id -> row
    firs,           \* table fir_records: id -> row
    nextUserId,     \* identifiers generated so far, per table (uuid: never repeats)
    nextCriminalId,
    nextFirId,
    now,            \* the clock read by new Date() and by the database
    req,            \* the request being answered
    resp,           \* the response sent for it
    nulled,         \* FIR rows whose criminal_id the last statement set to NULL
    removed,        \* identifiers deleted so far, per table
    backend,        \* the database file: "up", or "down" when its I/O fails
    startup,        \* registerRoutes: "loading" the dataset, then "loaded", "failed"
                    \* or "exited"
    predictorData,  \* CrimePredictor.data: the rows of crime_data.csv
    statsCall       \* the getStatistics call in flight: its position and what its
                    \* statements have returned and seen

vars == <<users, criminals, firs, nextUserId, nextCriminalId, nextFirId, now,
          req, resp, nulled, removed, backend, startup, predictorData,
          statsCall>>

----------------------------------------------------------------------------
(* Bounds of the model *)

MaxUsers == 2
MaxCriminals == 1
MaxFirs == 2
MaxTime == 2
StatsMaxCriminals == 3
StatsMaxFirs == 1
MaxDataRows == 3
InterleavedMaxCriminals == 2
SearchMaxCriminals == 2

(* Program constants *)

BcryptCost == 10
MinUsernameLen == 3
MinPasswordLen == 6
CurrentYear == 2025

----------------------------------------------------------------------------
(* Values *)

NullText == <<"NULL">>
NullRef == 0
NullTime == 0

UserRoles == {"admin", "operator"}
Genders == {"male", "female", "other"}
CaseStatuses == {"open", "pending", "closed"}

Salts == {1, 2}

UserIds == 1..MaxUsers
CriminalIds == 1..MaxCriminals
FirIds == 1..MaxFirs
StatsCriminalIds == 1..StatsMaxCriminals
InterleavedCriminalIds == 1..InterleavedMaxCriminals
StatsFirIds == 1..StatsMaxFirs
SearchCriminalIds == 1..SearchMaxCriminals

Plain(p) == <<"plain", p>>

\* a patch: the value it carries for field f, if any
Has(patch, f) == \E kv \in patch : kv[1] = f
ValueOf(patch, f) == (CHOOSE kv \in patch : kv[1] = f)[2]

\* Prisma update: the fields of data overwrite those of the row
Merge(row, patch) ==
    [f \in DOMAIN row |-> IF Has(patch, f) THEN ValueOf(patch, f) ELSE row[f]]

Remove(table, id) == [i \in DOMAIN table \ {id} |-> table[i]]

\* an identifier generator that takes the first identifier not in the table
newIdReused(next, table) ==
    CHOOSE i \in 1..next : i \notin DOMAIN table /\ \A j \in 1..(i - 1) : j \in DOMAIN table

\* the identifier a create draws for the new row: one never drawn before
newId(next, table) == next

----------------------------------------------------------------------------
(* bcrypt *)

\* bcrypt.hash(text, cost) with the salt it draws
bcryptHash(text, salt) == <<"$2b$", BcryptCost, salt, text[2]>>

\* a comparison that accepts any bcrypt string
bcryptCompareAnyHash(text, stored) == stored[1] = "$2b$"

\* bcrypt.compare(text, stored): false for a stored string that is no bcrypt string
bcryptCompare(text, stored) == stored[1] = "$2b$" /\ stored[4] = text[2]

\* JavaScript truthiness of a string
Truthy(text) == text[2] # ""

----------------------------------------------------------------------------
(* Type guards and row transforms of the store *)

isUserRole(role) == role = "admin" \/ role = "operator"

isGender(gender) == gender = "male" \/ gender = "female" \/ gender = "other"

isCaseStatus(status) == status = "open" \/ status = "pending" \/ status = "closed"

transformUser(user) ==
    [user EXCEPT !.role = IF isUserRole(user.role) THEN user.role ELSE "operator"]

\* a transform that hands the row on as stored
transformCriminalRecordAsStored(record) == record

transformCriminalRecord(record) ==
    [record EXCEPT !.gender = IF isGender(record.gender) THEN record.gender ELSE "other",
                   !.caseStatus = IF isCaseStatus(record.caseStatus)
                                  THEN record.caseStatus ELSE "open"]

transformFirRecord(record) == record

\* a copy of the user that leaves nothing out
WithPassword(user) == user

\* const { password, ...userWithoutPassword } = user
WithoutPassword(user) == [f \in DOMAIN user \ {"password"} |-> user[f]]

----------------------------------------------------------------------------
(* The database *)

\* a statement sent while the database cannot be read or written raises an error
IoError == backend = "down"

\* the rows of a table as a query returns them when no order is asked for
RECURSIVE RowsFrom(_, _)
RowsFrom(table, ids) ==
    IF ids = {} THEN <<>>
    ELSE LET first == CHOOSE i \in ids : \A j \in ids : i <= j
         IN  <<table[first]>> \o RowsFrom(table, ids \ {first})

UpperCase == <<"A", "B", "C", "D", "E", "F", "G", "H", "I", "J", "K", "L", "M",
               "N", "O", "P", "Q", "R", "S", "T", "U", "V", "W", "X", "Y", "Z">>
LowerCase == <<"a", "b", "c", "d", "e", "f", "g", "h", "i", "j", "k", "l", "m",
               "n", "o", "p", "q", "r", "s", "t", "u", "v", "w", "x", "y", "z">>

FoldChar(c) ==
    IF \E i \in 1..26 : UpperCase[i] = c
    THEN LowerCase[CHOOSE i \in 1..26 : UpperCase[i] = c]
    ELSE c

FoldCase(text) == [i \in 1..Len(text) |-> FoldChar(text[i])]

\* { contains: query, mode: 'insensitive' } on a column; NULL matches nothing
ContainsInsensitive(column, query) ==
    /\ column # NullText
    /\ \E i \in 1..(Len(column) - Len(query) + 1) :
          SubSeq(FoldCase(column), i, i + Len(query) - 1) = FoldCase(query)

\* orderBy: { createdAt: 'desc' }; rows of one instant come in the order of the table
RECURSIVE OrderedByCreatedAtDesc(_, _)
OrderedByCreatedAtDesc(table, ids) ==
    IF ids = {} THEN <<>>
    ELSE LET first == CHOOSE i \in ids :
                         \A j \in ids :
                            \/ table[i].createdAt > table[j].createdAt
                            \/ table[i].createdAt = table[j].createdAt /\ i <= j
         IN  <<table[first]>> \o OrderedByCreatedAtDesc(table, ids \ {first})

----------------------------------------------------------------------------
(* Users: the store *)

getUser(id) == IF id \in DOMAIN users THEN {transformUser(users[id])} ELSE {}

\* unique index users_username_key
UsernameTaken(username, except) ==
    \E u \in DOMAIN users \ except : users[u].username = username

\* DatabaseStorage.getUserByUsername
getUserByUsername(username) ==
    {transformUser(users[u]) : u \in {v \in DOMAIN users : users[v].username = username}}

\* DatabaseStorage.getAllUsers
getAllUsers ==
    LET rows == OrderedByCreatedAtDesc(users, DOMAIN users)
    IN  [i \in 1..Len(rows) |-> transformUser(rows[i])]

\* the row prisma.user.create inserts: column defaults for what data leaves out
NewUserRow(id, data, t) ==
    [id |-> id,
     username |-> data.username,
     password |-> data.password,
     role |-> IF data.role = "absent" THEN "operator" ELSE data.role,
     name |-> data.name,
     lastLogin |-> NullTime,
     isActive |-> TRUE,
     createdAt |-> t]

\* prisma.user.create throws on a duplicate username
createUserThrows(data) == IoError \/ UsernameTaken(data.username, {})

\* prisma.user.update throws on an I/O error, when no row has the id or when the
\* username is another row's
updateUserThrows(id, updates) ==
    \/ IoError
    \/ id \notin DOMAIN users
    \/ Has(updates, "username") /\ UsernameTaken(ValueOf(updates, "username"), {id})

\* DatabaseStorage.updateUser: the table after the call and what it returns
updateUserTable(id, updates) ==
    IF updateUserThrows(id, updates) THEN users
    ELSE [users EXCEPT ![id] = Merge(users[id], updates)]

updateUser(id, updates) ==
    IF updateUserThrows(id, updates) THEN {}
    ELSE {transformUser(Merge(users[id], updates))}

\* DatabaseStorage.deleteUser: false whenever prisma.user.delete throws
deleteUser(id) == ~IoError /\ id \in DOMAIN users

deleteUserTable(id) == IF deleteUser(id) THEN Remove(users, id) ELSE users

----------------------------------------------------------------------------
(* Users: requests *)

Requesters == {"admin", "operator"}

UserDrafts ==
    {[username |-> u, password |-> Plain("secret1"), role |-> r, name |-> "Officer"] :
        u \in {"alice", "bob"}, r \in {"absent", "admin"}}
    \cup {[username |-> "carol", password |-> Plain("short"), role |-> "absent",
           name |-> "Officer"]}

UserPatches ==
    {{}, {<<"password", Plain("hunter22")>>}, {<<"password", Plain("")>>},
     {<<"username", "bob">>}, {<<"isActive", FALSE>>}, {<<"role", "admin">>}}

\* insertUserSchema.parse
insertUserSchema(body) ==
    /\ Len(body.username) >= MinUsernameLen
    /\ Len(body.password[2]) >= MinPasswordLen
    /\ body.role \in UserRoles \cup {"absent"}
    /\ Len(body.name) >= 1

UnchangedRecords == UNCHANGED <<criminals, firs, nextCriminalId, nextFirId, nulled>>
UnchangedUsers == UNCHANGED <<users, nextUserId>>

\* what no request handler of the three tables writes
UnchangedElsewhere == UNCHANGED <<backend, startup, predictorData, statsCall>>

\* POST /api/auth/login
Login(by, username, password) ==
    LET found == getUserByUsername(username)
        user == CHOOSE u \in found : TRUE
        refused == [status |-> 401, body |-> "Invalid credentials"]
    IN  /\ req' = [op |-> "POST /api/auth/login", by |-> by, id |-> 0,
                   body |-> [username |-> username, password |-> password]]
        /\ IF username = "" \/ ~Truthy(password)
           THEN /\ resp' = [status |-> 400,
                            body |-> "Username and password are required"]
                /\ UNCHANGED users
           ELSE IF IoError
           THEN /\ resp' = [status |-> 500, body |-> "Internal server error"]
                /\ UNCHANGED users
           ELSE IF found = {}
           THEN resp' = refused /\ UNCHANGED users
           ELSE IF ~user.isActive \/ ~bcryptCompare(password, user.password)
           THEN resp' = refused /\ UNCHANGED users
           ELSE /\ users' = updateUserTable(user.id, {<<"lastLogin", now>>})
                /\ resp' = [status |-> 200, body |-> [user |-> WithoutPassword(user)]]
        /\ UNCHANGED <<nextUserId, now, removed>>
        /\ UnchangedRecords
        /\ UnchangedElsewhere

\* GET /api/users
GetUsers(by) ==
    /\ req' = [op |-> "GET /api/users", by |-> by, id |-> 0, body |-> {}]
    /\ resp' = IF IoError
               THEN [status |-> 500, body |-> "Failed to fetch users"]
               ELSE [status |-> 200,
                     body |-> [i \in 1..Len(getAllUsers) |->
                                  WithoutPassword(getAllUsers[i])]]
    /\ UNCHANGED <<users, nextUserId, now, removed>>
    /\ UnchangedRecords
    /\ UnchangedElsewhere

\* POST /api/users
PostUser(by, body) ==
    /\ req' = [op |-> "POST /api/users", by |-> by, id |-> 0, body |-> body]
    /\ IF ~insertUserSchema(body)
       THEN /\ resp' = [status |-> 400, body |-> "Invalid user data"]
            /\ UNCHANGED <<users, nextUserId>>
       ELSE IF createUserThrows(body)
       THEN /\ resp' = [status |-> 500, body |-> "Failed to create user"]
            /\ UNCHANGED <<users, nextUserId>>
       ELSE LET row == NewUserRow(newId(nextUserId, users), body, now) IN
            /\ users' = users @@ (row.id :> row)
            /\ nextUserId' = nextUserId + 1
            /\ resp' = [status |-> 201, body |-> WithoutPassword(transformUser(row))]
    /\ UNCHANGED <<now, removed>>
    /\ UnchangedRecords
    /\ UnchangedElsewhere

\* the salt is drawn only when the body carries a password to hash
SaltsFor(body) ==
    IF Has(body, "password") /\ Truthy(ValueOf(body, "password")) THEN Salts ELSE {0}

\* the body of PUT /api/users/:id after "if (updates.password) hash it"
HashedUpdates(updates, salt) ==
    IF Has(updates, "password") /\ Truthy(ValueOf(updates, "password"))
    THEN {kv \in updates : kv[1] # "password"}
         \cup {<<"password", bcryptHash(ValueOf(updates, "password"), salt)>>}
    ELSE updates

\* PUT /api/users/:id
PutUser(by, id, body, salt) ==
    LET updates == HashedUpdates(body, salt)
        user == updateUser(id, updates)
    IN  /\ req' = [op |-> "PUT /api/users/:id", by |-> by, id |-> id, body |-> body]
        /\ users' = updateUserTable(id, updates)
        /\ resp' = IF user = {}
                   THEN [status |-> 404, body |-> "User not found"]
                   ELSE [status |-> 200,
                         body |-> WithoutPassword(CHOOSE u \in user : TRUE)]
        /\ UNCHANGED <<nextUserId, now, removed>>
        /\ UnchangedRecords
        /\ UnchangedElsewhere

\* DELETE /api/users/:id
DeleteUser(by, id) ==
    /\ req' = [op |-> "DELETE /api/users/:id", by |-> by, id |-> id, body |-> {}]
    /\ users' = deleteUserTable(id)
    /\ removed' = IF deleteUser(id)
                  THEN [removed EXCEPT !.users = @ \cup {id}] ELSE removed
    /\ resp' = IF deleteUser(id)
               THEN [status |-> 200, body |-> "User deleted successfully"]
               ELSE [status |-> 404, body |-> "User not found"]
    /\ UNCHANGED <<nextUserId, now>>
    /\ UnchangedRecords
    /\ UnchangedElsewhere

----------------------------------------------------------------------------
(* Report numbers *)

DigitChars == <<"0", "1", "2", "3", "4", "5", "6", "7", "8", "9">>

\* the decimal digits of a natural number, as `${n}` prints them
RECURSIVE Digits(_)
Digits(n) ==
    IF n < 10 THEN <<DigitChars[n + 1]>>
    ELSE Digits(n \div 10) \o <<DigitChars[(n % 10) + 1]>>

\* what Math.floor(Math.random() * 900000) can be: the two extremes
Randoms == {0, 899999}

\* a generator that prints the random number as drawn, without the offset
generateFirNumberWithoutOffset(random) ==
    <<"F", "I", "R", "-">> \o Digits(CurrentYear) \o <<"-">> \o Digits(random)

\* DatabaseStorage.generateFirNumber, random == Math.floor(Math.random() * 900000)
generateFirNumber(random) ==
    <<"F", "I", "R", "-">> \o Digits(CurrentYear) \o <<"-">> \o Digits(random + 100000)

\* JavaScript falsiness of (string | null | undefined)
Falsy(text) == text = NullText \/ text = <<>>

\* record.firNumber || this.generateFirNumber()
firNumberOr(text, random) == IF Falsy(text) THEN generateFirNumber(random) ELSE text

----------------------------------------------------------------------------
(* Criminal records: the store *)

getCriminalRecord(id) ==
    IF id \in DOMAIN criminals THEN {transformCriminalRecord(criminals[id])} ELSE {}

\* the row prisma.criminalRecord.create inserts
NewCriminalRow(id, data, t) ==
    [id |-> id,
     name |-> data.name,
     age |-> data.age,
     gender |-> data.gender,
     crimeType |-> data.crimeType,
     firNumber |-> data.firNumber,
     caseStatus |-> IF data.caseStatus = "absent" THEN "open" ELSE data.caseStatus,
     arrestDate |-> NullTime,
     address |-> NullText,
     photo |-> NullText,
     createdAt |-> t,
     updatedAt |-> t]

\* DatabaseStorage.createCriminalRecord: the row created
createCriminalRecord(id, record, random, t) ==
    NewCriminalRow(id, [record EXCEPT !.firNumber = firNumberOr(record.firNumber, random)], t)

\* the updated_at column is written by the client on every update
RefreshUpdatedAt(row, t) == [row EXCEPT !.updatedAt = t]

\* an update that stamps created_at as well
UpdatedRowStampingCreation(row, updates, t) ==
    Merge([row EXCEPT !.updatedAt = t, !.createdAt = t], updates)

\* the row prisma.<table>.update({ where: { id }, data: updates }) leaves
UpdatedRow(row, updates, t) == Merge(RefreshUpdatedAt(row, t), updates)

\* prisma.criminalRecord.create throws on an I/O error
createCriminalThrows(row) == IoError

\* the client validates data against the column types before it queries: a string
\* for the Int column age (the pair "age:string" of a patch, as a form field is)
\* is refused
InvalidCriminalUpdate(updates) == Has(updates, "age:string")

\* prisma.criminalRecord.update throws on an I/O error, on data of the wrong type
\* or when no row has the id
updateCriminalThrows(id, updates) ==
    IoError \/ InvalidCriminalUpdate(updates) \/ id \notin DOMAIN criminals

\* DatabaseStorage.updateCriminalRecord: the table after the call and what it returns
updateCriminalTable(id, updates, t) ==
    IF updateCriminalThrows(id, updates) THEN criminals
    ELSE [criminals EXCEPT ![id] = UpdatedRow(criminals[id], updates, t)]

updateCriminalRecord(id, updates, t) ==
    IF updateCriminalThrows(id, updates) THEN {}
    ELSE {transformCriminalRecord(UpdatedRow(criminals[id], updates, t))}

\* DatabaseStorage.deleteCriminalRecord: what it returns and the tables after it;
\* the foreign key of fir_records is ON DELETE SET NULL
deleteCriminalRecord(id) == ~IoError /\ id \in DOMAIN criminals

deleteCriminalTable(id) ==
    IF deleteCriminalRecord(id) THEN Remove(criminals, id) ELSE criminals

ReferencingFirs(id) == {f \in DOMAIN firs : firs[f].criminalId = id}

\* the same foreign key declared ON DELETE CASCADE
OnDeleteCascade(id) == [f \in DOMAIN firs \ ReferencingFirs(id) |-> firs[f]]

OnDeleteSetNull(id) ==
    [f \in DOMAIN firs |->
        IF firs[f].criminalId = id THEN [firs[f] EXCEPT !.criminalId = NullRef]
        ELSE firs[f]]

----------------------------------------------------------------------------
(* Criminal records: list and search *)

TransformAll(rows) == [i \in 1..Len(rows) |-> transformCriminalRecord(rows[i])]

\* DatabaseStorage.getAllCriminalRecords
getAllCriminalRecords == TransformAll(OrderedByCreatedAtDesc(criminals, DOMAIN criminals))

\* a test that takes an empty parameter for a value to match
GivenOrEmpty(param) == param # "absent"

\* JavaScript truthiness of a query parameter (string | undefined)
Given(param) == param # "" /\ param # "absent"
GivenText(text) == text # <<>> /\ text # NullText

\* the migration is for the SQLite connector, whose string filters have no `mode`
\* argument: the client rejects a query that carries one
ConnectorHasQueryMode == FALSE

\* prisma.criminalRecord.findMany({ where, orderBy }) of searchCriminalRecords throws
searchCriminalThrows(query, filters) ==
    IoError \/ (GivenText(query) /\ ~ConnectorHasQueryMode)

\* the where clause of searchCriminalRecords
searchWhere(row, query, filters) ==
    /\ GivenText(query) =>
          \/ ContainsInsensitive(row.name, query)
          \/ ContainsInsensitive(row.firNumber, query)
    /\ Given(filters.crimeType) => row.crimeType = filters.crimeType
    /\ Given(filters.status) => row.caseStatus = filters.status

\* DatabaseStorage.searchCriminalRecords, when its query does not throw
searchCriminalRecords(query, filters) ==
    TransformAll(OrderedByCreatedAtDesc(criminals,
        {c \in DOMAIN criminals : searchWhere(criminals[c], query, filters)}))

----------------------------------------------------------------------------
(* FIR records: the store *)

\* a lookup that does not select the back-reference
getFirRecordWithoutReference(id) ==
    IF id \in DOMAIN firs THEN {[firs[id] EXCEPT !.criminalId = NullRef]} ELSE {}

getFirRecord(id) == IF id \in DOMAIN firs THEN {transformFirRecord(firs[id])} ELSE {}

\* unique index fir_records_fir_number_key
FirNumberTaken(firNumber, except) ==
    \E f \in DOMAIN firs \ except : firs[f].firNumber = firNumber

\* a reference column with no foreign key on it
ForeignKeyUnenforced(criminalId) == FALSE

\* foreign key fir_records_criminal_id_fkey
ForeignKeyFails(criminalId) == criminalId # NullRef /\ criminalId \notin DOMAIN criminals

\* the row prisma.firRecord.create inserts
NewFirRow(id, data, t) ==
    [id |-> id,
     firNumber |-> data.firNumber,
     criminalId |-> data.criminalId,
     firDate |-> data.firDate,
     description |-> data.description,
     createdAt |-> t,
     updatedAt |-> t]

createFirRecord(id, record, random, t) ==
    NewFirRow(id, [record EXCEPT !.firNumber = firNumberOr(record.firNumber, random)], t)

\* the same create on a table without the unique index on fir_number
createFirThrowsWithoutIndex(row) == IoError \/ ForeignKeyFails(row.criminalId)

\* prisma.firRecord.create throws on a duplicate number or a dangling reference
createFirThrows(row) ==
    IoError \/ FirNumberTaken(row.firNumber, {}) \/ ForeignKeyFails(row.criminalId)

\* the same with a foreign key that is not enforced
updateFirThrowsUnchecked(id, updates) ==
    \/ IoError
    \/ id \notin DOMAIN firs
    \/ Has(updates, "firNumber") /\ FirNumberTaken(ValueOf(updates, "firNumber"), {id})

\* prisma.firRecord.update throws when no row has the id, the number is another
\* row's or the reference dangles
updateFirThrows(id, updates) ==
    \/ IoError
    \/ id \notin DOMAIN firs
    \/ Has(updates, "firNumber") /\ FirNumberTaken(ValueOf(updates, "firNumber"), {id})
    \/ Has(updates, "criminalId") /\ ForeignKeyFails(ValueOf(updates, "criminalId"))

updateFirTable(id, updates, t) ==
    IF updateFirThrows(id, updates) THEN firs
    ELSE [firs EXCEPT ![id] = UpdatedRow(firs[id], updates, t)]

updateFirRecord(id, updates, t) ==
    IF updateFirThrows(id, updates) THEN {}
    ELSE {transformFirRecord(UpdatedRow(firs[id], updates, t))}

\* a delete that reports success whether or not a row went (deleteMany)
deleteFirRecordAlways(id) == TRUE

deleteFirRecord(id) == ~IoError /\ id \in DOMAIN firs

deleteFirTable(id) == IF deleteFirRecord(id) THEN Remove(firs, id) ELSE firs

----------------------------------------------------------------------------
(* Statistics *)

findMany(table) == RowsFrom(table, DOMAIN table)

count(table) == Len(findMany(table))

\* a grouping that emits one row per key but never counts past the first
RECURSIVE groupByUncounted(_, _)
groupByUncounted(rows, field) ==
    IF rows = <<>> THEN <<>>
    ELSE LET rest == groupByUncounted(Tail(rows), field)
             key == Head(rows)[field]
         IN  IF \E i \in 1..Len(rest) : rest[i].key = key
             THEN rest
             ELSE <<[key |-> key, count |-> 1]>> \o rest

\* prisma.<table>.groupBy({ by: [field], _count: { field: true } })
RECURSIVE groupBy(_, _)
groupBy(rows, field) ==
    IF rows = <<>> THEN <<>>
    ELSE LET rest == groupBy(Tail(rows), field)
             key == Head(rows)[field]
         IN  IF \E i \in 1..Len(rest) : rest[i].key = key
             THEN [i \in 1..Len(rest) |->
                     IF rest[i].key = key
                     THEN [key |-> key, count |-> rest[i].count + 1]
                     ELSE rest[i]]
             ELSE <<[key |-> key, count |-> 1]>> \o rest

IsClosed(c) == c.caseStatus = "closed"
\* a filter on the wrong status
IsOpen(c) == c.caseStatus = "open"

IsPending(c) == c.caseStatus = "pending"

\* DatabaseStorage.getStatistics, run with no other request in between
getStatistics ==
    LET totalCriminals == count(criminals)
        activeFirs == count(firs)
        all == findMany(criminals)
        crimeTypeDistribution == groupBy(findMany(criminals), "crimeType")
        caseStatusDistribution == groupBy(findMany(criminals), "caseStatus")
    IN  [totalCriminals |-> totalCriminals,
         activeFirs |-> activeFirs,
         solvedCases |-> Len(SelectSeq(all, IsClosed)),
         pendingCases |-> Len(SelectSeq(all, IsPending)),
         crimeTypeDistribution |->
             [i \in 1..Len(crimeTypeDistribution) |->
                 [type |-> crimeTypeDistribution[i].key,
                  count |-> crimeTypeDistribution[i].count]],
         caseStatusDistribution |->
             [i \in 1..Len(caseStatusDistribution) |->
                 [status |-> caseStatusDistribution[i].key,
                  count |-> caseStatusDistribution[i].count]]]

----------------------------------------------------------------------------
(* Criminal records and FIR records: requests *)

NotANumber == -1

IsDigit(c) == \E i \in 1..10 : DigitChars[i] = c
DigitValue(c) == (CHOOSE i \in 1..10 : DigitChars[i] = c) - 1

\* parseInt(text, 10) of an unsigned text: the leading digits, NaN if there are none
RECURSIVE parseDigits(_, _)
parseDigits(text, acc) ==
    IF text = <<>> \/ ~IsDigit(Head(text)) THEN acc
    ELSE parseDigits(Tail(text), 10 * acc + DigitValue(Head(text)))

parseInt(text) ==
    IF text = <<>> \/ ~IsDigit(Head(text)) THEN NotANumber ELSE parseDigits(text, 0)

MinAge == 1
MaxAge == 120

\* the upper bound of age in the shared insertCriminalRecordSchema
SharedMaxAge == 150

\* insertCriminalRecordSchema.parse, of the body with age already converted
insertCriminalRecordSchema(data) ==
    /\ Len(data.name) >= 1
    /\ data.age # NotANumber /\ data.age >= MinAge /\ data.age <= MaxAge
    /\ data.gender \in Genders
    /\ Len(data.crimeType) >= 1
    /\ data.caseStatus \in CaseStatuses \cup {"absent"}

\* insertFirRecordSchema.parse; an absent firDate becomes new Date()
insertFirRecordSchema(data) == Len(data.description) >= 1

CriminalDraft(age, crimeType, firNumber, caseStatus) ==
    [name |-> <<"J", "o">>, age |-> age, gender |-> "male", crimeType |-> crimeType,
     firNumber |-> firNumber, caseStatus |-> caseStatus]

FirDraft(firNumber, criminalId, description) ==
    [firNumber |-> firNumber, criminalId |-> criminalId, description |-> description]

\* GET /api/criminals/:id
GetCriminal(by, id) ==
    /\ req' = [op |-> "GET /api/criminals/:id", by |-> by, id |-> id, body |-> {}]
    /\ resp' = IF IoError
               THEN [status |-> 500, body |-> "Failed to fetch criminal record"]
               ELSE IF getCriminalRecord(id) = {}
               THEN [status |-> 404, body |-> "Criminal record not found"]
               ELSE [status |-> 200, body |-> CHOOSE r \in getCriminalRecord(id) : TRUE]
    /\ UNCHANGED <<criminals, firs, nextCriminalId, nextFirId, now, nulled, removed>>
    /\ UnchangedUsers
    /\ UnchangedElsewhere

\* GET /api/criminals?search=&crimeType=&status=
GetCriminals(by, search, crimeType, status) ==
    LET query == IF GivenText(search) THEN search ELSE <<>>
        filters == [crimeType |-> crimeType, status |-> status]
        searching == GivenText(search) \/ Given(crimeType) \/ Given(status)
    IN  /\ req' = [op |-> "GET /api/criminals", by |-> by, id |-> 0,
                   body |-> [search |-> search, crimeType |-> crimeType,
                             status |-> status]]
        /\ resp' = IF searching /\ searchCriminalThrows(query, filters)
                   THEN [status |-> 500, body |-> "Failed to fetch criminal records"]
                   ELSE IF searching
                   THEN [status |-> 200, body |-> searchCriminalRecords(query, filters)]
                   ELSE IF IoError
                   THEN [status |-> 500, body |-> "Failed to fetch criminal records"]
                   ELSE [status |-> 200, body |-> getAllCriminalRecords]
        /\ UNCHANGED <<criminals, firs, nextCriminalId, nextFirId, now, nulled, removed>>
        /\ UnchangedUsers
        /\ UnchangedElsewhere

\* POST /api/criminals
PostCriminal(by, body, random) ==
    LET bodyData == [body EXCEPT !.age = parseInt(body.age)] IN
    /\ req' = [op |-> "POST /api/criminals", by |-> by, id |-> 0, body |-> body]
    /\ IF ~insertCriminalRecordSchema(bodyData)
       THEN /\ resp' = [status |-> 400, body |-> "Invalid criminal record data"]
            /\ UNCHANGED <<criminals, nextCriminalId>>
       ELSE LET row == createCriminalRecord(newId(nextCriminalId, criminals), bodyData,
                                            random, now)
            IN  IF createCriminalThrows(row)
                THEN /\ resp' = [status |-> 500,
                                 body |-> "Failed to create criminal record"]
                     /\ UNCHANGED <<criminals, nextCriminalId>>
                ELSE /\ criminals' = criminals @@ (row.id :> row)
                     /\ nextCriminalId' = nextCriminalId + 1
                     /\ resp' = [status |-> 201, body |-> transformCriminalRecord(row)]
    /\ nulled' = {}
    /\ UNCHANGED <<firs, nextFirId, now, removed>>
    /\ UnchangedUsers
    /\ UnchangedElsewhere

\* PUT /api/criminals/:id
PutCriminal(by, id, body) ==
    LET record == updateCriminalRecord(id, body, now) IN
    /\ req' = [op |-> "PUT /api/criminals/:id", by |-> by, id |-> id, body |-> body]
    /\ criminals' = updateCriminalTable(id, body, now)
    /\ resp' = IF record = {}
               THEN [status |-> 404, body |-> "Criminal record not found"]
               ELSE [status |-> 200, body |-> CHOOSE r \in record : TRUE]
    /\ nulled' = {}
    /\ UNCHANGED <<nextCriminalId, firs, nextFirId, now, removed>>
    /\ UnchangedUsers
    /\ UnchangedElsewhere

\* DELETE /api/criminals/:id
DeleteCriminal(by, id) ==
    /\ req' = [op |-> "DELETE /api/criminals/:id", by |-> by, id |-> id, body |-> {}]
    /\ criminals' = deleteCriminalTable(id)
    /\ firs' = IF deleteCriminalRecord(id) THEN OnDeleteSetNull(id) ELSE firs
    /\ nulled' = IF deleteCriminalRecord(id) THEN ReferencingFirs(id) ELSE {}
    /\ removed' = IF deleteCriminalRecord(id)
                  THEN [removed EXCEPT !.criminals = @ \cup {id}] ELSE removed
    /\ resp' = IF deleteCriminalRecord(id)
               THEN [status |-> 200, body |-> "Criminal record deleted successfully"]
               ELSE [status |-> 404, body |-> "Criminal record not found"]
    /\ UNCHANGED <<nextCriminalId, nextFirId, now>>
    /\ UnchangedUsers
    /\ UnchangedElsewhere

\* GET /api/firs/:id
GetFir(by, id) ==
    /\ req' = [op |-> "GET /api/firs/:id", by |-> by, id |-> id, body |-> {}]
    /\ resp' = IF IoError
               THEN [status |-> 500, body |-> "Failed to fetch FIR record"]
               ELSE IF getFirRecord(id) = {}
               THEN [status |-> 404, body |-> "FIR record not found"]
               ELSE [status |-> 200, body |-> CHOOSE r \in getFirRecord(id) : TRUE]
    /\ UNCHANGED <<criminals, firs, nextCriminalId, nextFirId, now, nulled, removed>>
    /\ UnchangedUsers
    /\ UnchangedElsewhere

\* POST /api/firs
PostFir(by, body, random) ==
    /\ req' = [op |-> "POST /api/firs", by |-> by, id |-> 0, body |-> body]
    /\ IF body.description = <<>>
       THEN /\ resp' = [status |-> 400, body |-> "Description is required"]
            /\ UNCHANGED <<firs, nextFirId>>
       ELSE IF ~insertFirRecordSchema(body)
       THEN /\ resp' = [status |-> 400, body |-> "Invalid FIR data"]
            /\ UNCHANGED <<firs, nextFirId>>
       ELSE LET firData == [firNumber |-> body.firNumber, criminalId |-> body.criminalId,
                            firDate |-> now, description |-> body.description]
                row == createFirRecord(newId(nextFirId, firs), firData, random, now)
            IN  IF createFirThrows(row)
                THEN /\ resp' = [status |-> 500, body |-> "Failed to create FIR record"]
                     /\ UNCHANGED <<firs, nextFirId>>
                ELSE /\ firs' = firs @@ (row.id :> row)
                     /\ nextFirId' = nextFirId + 1
                     /\ resp' = [status |-> 201, body |-> transformFirRecord(row)]
    /\ nulled' = {}
    /\ UNCHANGED <<criminals, nextCriminalId, now, removed>>
    /\ UnchangedUsers
    /\ UnchangedElsewhere

\* PUT /api/firs/:id
PutFir(by, id, body) ==
    LET record == updateFirRecord(id, body, now) IN
    /\ req' = [op |-> "PUT /api/firs/:id", by |-> by, id |-> id, body |-> body]
    /\ firs' = updateFirTable(id, body, now)
    /\ resp' = IF record = {}
               THEN [status |-> 404, body |-> "FIR record not found"]
               ELSE [status |-> 200, body |-> CHOOSE r \in record : TRUE]
    /\ nulled' = {}
    /\ UNCHANGED <<nextFirId, criminals, nextCriminalId, now, removed>>
    /\ UnchangedUsers
    /\ UnchangedElsewhere

\* DELETE /api/firs/:id
DeleteFir(by, id) ==
    /\ req' = [op |-> "DELETE /api/firs/:id", by |-> by, id |-> id, body |-> {}]
    /\ firs' = deleteFirTable(id)
    /\ removed' = IF deleteFirRecord(id)
                  THEN [removed EXCEPT !.firs = @ \cup {id}] ELSE removed
    /\ resp' = IF deleteFirRecord(id)
               THEN [status |-> 200, body |-> "FIR record deleted successfully"]
               ELSE [status |-> 404, body |-> "FIR record not found"]
    /\ nulled' = {}
    /\ UNCHANGED <<nextFirId, criminals, nextCriminalId, now>>
    /\ UnchangedUsers
    /\ UnchangedElsewhere

\* GET /api/statistics
GetStatistics(by) ==
    /\ req' = [op |-> "GET /api/statistics", by |-> by, id |-> 0, body |-> {}]
    /\ resp' = IF IoError
               THEN [status |-> 500, body |-> "Failed to fetch statistics"]
               ELSE [status |-> 200, body |-> getStatistics]
    /\ UNCHANGED <<criminals, firs, nextCriminalId, nextFirId, now, nulled, removed>>
    /\ UnchangedUsers
    /\ UnchangedElsewhere

\* the number of all rows, where the number of closed ones is asked
solvedOfAll(rows) == Len(rows)

\* criminals.filter(c => c.caseStatus === "closed").length
solvedOf(rows) == Len(SelectSeq(rows, IsClosed))

pendingOf(rows) == Len(SelectSeq(rows, IsPending))

\* no call of getStatistics in flight
NoStatsCall ==
    [pc |-> "idle", pending |-> {}, totalCriminals |-> 0, activeFirs |-> 0,
     criminals |-> <<>>, crimeTypeDistribution |-> <<>>,
     seen |-> [count |-> <<>>, findMany |-> <<>>, crimeType |-> <<>>]]

\* GET /api/statistics answers 500 when a statement of getStatistics throws
StatisticsFails(by) ==
    /\ req' = [op |-> "GET /api/statistics", by |-> by, id |-> 0, body |-> {}]
    /\ resp' = [status |-> 500, body |-> "Failed to fetch statistics"]
    /\ statsCall' = NoStatsCall

UnchangedByStatistics ==
    /\ UNCHANGED <<criminals, firs, nextCriminalId, nextFirId, now, nulled, removed>>
    /\ UnchangedUsers
    /\ UNCHANGED <<backend, startup, predictorData>>

\* GET /api/statistics arrives: getStatistics issues the three queries of Promise.all
StatisticsBegin ==
    /\ statsCall.pc = "idle"
    /\ statsCall' = [NoStatsCall EXCEPT !.pc = "reading",
                                        !.pending = {"count", "countFirs", "findMany"}]
    /\ UNCHANGED <<req, resp>>
    /\ UnchangedByStatistics

\* the database runs one of the three queries; after the last of them the call is
\* at its first groupBy
StatisticsRead(by, query) ==
    /\ statsCall.pc = "reading"
    /\ query \in statsCall.pending
    /\ IF IoError THEN StatisticsFails(by)
       ELSE /\ statsCall' =
                 [statsCall EXCEPT
                    !.pending = @ \ {query},
                    !.pc = IF statsCall.pending = {query} THEN "groupByCrimeType"
                           ELSE "reading",
                    !.totalCriminals = IF query = "count" THEN count(criminals) ELSE @,
                    !.activeFirs = IF query = "countFirs" THEN count(firs) ELSE @,
                    !.criminals = IF query = "findMany" THEN findMany(criminals) ELSE @,
                    !.seen.count = IF query = "count" THEN criminals ELSE @,
                    !.seen.findMany = IF query = "findMany" THEN criminals ELSE @]
            /\ UNCHANGED <<req, resp>>
    /\ UnchangedByStatistics

\* await prisma.criminalRecord.groupBy({ by: ['crimeType'] })
StatisticsGroupByCrimeType(by) ==
    /\ statsCall.pc = "groupByCrimeType"
    /\ IF IoError THEN StatisticsFails(by)
       ELSE /\ statsCall' =
                 [statsCall EXCEPT
                    !.pc = "groupByCaseStatus",
                    !.crimeTypeDistribution = groupBy(findMany(criminals), "crimeType"),
                    !.seen.crimeType = criminals]
            /\ UNCHANGED <<req, resp>>
    /\ UnchangedByStatistics

\* await prisma.criminalRecord.groupBy({ by: ['caseStatus'] }), and the answer
StatisticsGroupByCaseStatus(by) ==
    LET caseStatusDistribution == groupBy(findMany(criminals), "caseStatus")
    IN  /\ statsCall.pc = "groupByCaseStatus"
        /\ IF IoError THEN StatisticsFails(by)
           ELSE /\ req' = [op |-> "GET /api/statistics", by |-> by, id |-> 0,
                           body |-> {}]
                /\ resp' =
                     [status |-> 200,
                      body |->
                        [totalCriminals |-> statsCall.totalCriminals,
                         activeFirs |-> statsCall.activeFirs,
                         solvedCases |-> solvedOf(statsCall.criminals),
                         pendingCases |-> pendingOf(statsCall.criminals),
                         crimeTypeDistribution |->
                             [i \in 1..Len(statsCall.crimeTypeDistribution) |->
                                 [type |-> statsCall.crimeTypeDistribution[i].key,
                                  count |-> statsCall.crimeTypeDistribution[i].count]],
                         caseStatusDistribution |->
                             [i \in 1..Len(caseStatusDistribution) |->
                                 [status |-> caseStatusDistribution[i].key,
                                  count |-> caseStatusDistribution[i].count]]]]
                /\ statsCall' = NoStatsCall
        /\ UnchangedByStatistics

----------------------------------------------------------------------------
(* Crime prediction: the predictor and its routes *)

\* a classification whose thresholds belong to the lower level
getRiskLevelInclusive(crimeRate) ==
    IF crimeRate <= 300 THEN "Low"
    ELSE IF crimeRate <= 500 THEN "Medium"
    ELSE IF crimeRate <= 700 THEN "High"
    ELSE "Critical"

\* CrimePredictor.getRiskLevel
getRiskLevel(crimeRate) ==
    IF crimeRate < 300 THEN "Low"
    ELSE IF crimeRate < 500 THEN "Medium"
    ELSE IF crimeRate < 700 THEN "High"
    ELSE "Critical"

\* one row of getAllPredictions
Prediction(d) ==
    [city |-> d.City, state |-> d.State, crimeRate |-> d.CrimeRate,
     riskLevel |-> getRiskLevel(d.CrimeRate), violentCrime |-> d.ViolentCrime,
     propertyCrime |-> d.PropertyCrime]

\* Array.prototype.sort((a, b) => b.crimeRate - a.crimeRate): stable, so rows of
\* equal rate keep the order of the file
RECURSIVE InsertByRate(_, _)
InsertByRate(row, sorted) ==
    IF sorted = <<>> THEN <<row>>
    ELSE IF row.crimeRate >= Head(sorted).crimeRate THEN <<row>> \o sorted
    ELSE <<Head(sorted)>> \o InsertByRate(row, Tail(sorted))

RECURSIVE SortByRateDesc(_)
SortByRateDesc(rows) ==
    IF rows = <<>> THEN <<>>
    ELSE InsertByRate(Head(rows), SortByRateDesc(Tail(rows)))

\* CrimePredictor.getAllPredictions
getAllPredictions ==
    SortByRateDesc([i \in 1..Len(predictorData) |-> Prediction(predictorData[i])])

\* Array.prototype.slice(0, end): a negative end counts from the end of the array,
\* NaN (no value) is taken as 0
slice(rows, end) ==
    IF end = {} THEN <<>>
    ELSE LET e == CHOOSE n \in end : TRUE
             last == IF e < 0 THEN (IF Len(rows) + e < 0 THEN 0 ELSE Len(rows) + e)
                     ELSE IF e > Len(rows) THEN Len(rows) ELSE e
         IN  SubSeq(rows, 1, last)

\* data.find(d => d.City.toLowerCase() === cityName.toLowerCase()): the first such
\* row, if any
RECURSIVE find(_, _)
find(rows, cityName) ==
    IF rows = <<>> THEN {}
    ELSE IF FoldCase(Head(rows).City) = FoldCase(cityName) THEN {Head(rows)}
    ELSE find(Tail(rows), cityName)

\* CrimePredictor.getCityPrediction: the prediction, or none (null)
getCityPrediction(cityName) == {Prediction(d) : d \in find(predictorData, cityName)}

\* a list that keeps the first city of a risk level only
RECURSIVE CitiesAtFirst(_, _)
CitiesAtFirst(rows, risk) ==
    IF rows = <<>> THEN <<>>
    ELSE IF getRiskLevel(Head(rows).CrimeRate) = risk THEN <<Head(rows).City>>
    ELSE CitiesAtFirst(Tail(rows), risk)

\* the cities pushed to the list of a risk level, in the order of the file
RECURSIVE CitiesAt(_, _)
CitiesAt(rows, risk) ==
    IF rows = <<>> THEN <<>>
    ELSE IF getRiskLevel(Head(rows).CrimeRate) = risk
    THEN <<Head(rows).City>> \o CitiesAt(Tail(rows), risk)
    ELSE CitiesAt(Tail(rows), risk)

RiskLevels == <<"Low", "Medium", "High", "Critical">>

\* CrimePredictor.getCrimeDistribution
getCrimeDistribution ==
    [i \in 1..4 |->
        [riskLevel |-> RiskLevels[i],
         count |-> Len(CitiesAt(predictorData, RiskLevels[i])),
         cities |-> CitiesAt(predictorData, RiskLevels[i])]]

\* CrimePredictor.getTopRiskCities
getTopRiskCities(limit) == slice(getAllPredictions, limit)

\* parseInt(text) of a text with an optional sign: {n}, or {} for NaN
parseIntSigned(text) ==
    IF text # <<>> /\ Head(text) = "-"
    THEN (IF parseInt(Tail(text)) = NotANumber THEN {} ELSE {0 - parseInt(Tail(text))})
    ELSE (IF parseInt(text) = NotANumber THEN {} ELSE {parseInt(text)})

DefaultLimit == 10

RECURSIVE SumRates(_)
SumRates(rows) == IF rows = <<>> THEN 0 ELSE Head(rows).CrimeRate + SumRates(Tail(rows))

\* a reduce with >= in place of >: the last of the highest
RECURSIVE MaxRateRowLast(_, _)
MaxRateRowLast(best, rows) ==
    IF rows = <<>> THEN best
    ELSE MaxRateRowLast(IF Head(rows).CrimeRate >= best.CrimeRate THEN Head(rows)
                        ELSE best,
                        Tail(rows))

\* reduce((max, d) => d.CrimeRate > max.CrimeRate ? d : max): the first of the highest
RECURSIVE MaxRateRow(_, _)
MaxRateRow(best, rows) ==
    IF rows = <<>> THEN best
    ELSE MaxRateRow(IF Head(rows).CrimeRate > best.CrimeRate THEN Head(rows) ELSE best,
                    Tail(rows))

RECURSIVE MinRateRow(_, _)
MinRateRow(best, rows) ==
    IF rows = <<>> THEN best
    ELSE MinRateRow(IF Head(rows).CrimeRate < best.CrimeRate THEN Head(rows) ELSE best,
                    Tail(rows))

\* CrimePredictor.getStatistics throws on no rows: reduce of an empty array with no
\* initial value
predictorStatisticsThrows == predictorData = <<>>

\* CrimePredictor.getStatistics; avgCrimeRate is in tenths, rounded half up
predictorStatistics ==
    LET maxCrimeCity == MaxRateRow(Head(predictorData), Tail(predictorData))
        minCrimeCity == MinRateRow(Head(predictorData), Tail(predictorData))
    IN  [totalCities |-> Len(predictorData),
         avgCrimeRate |-> (20 * SumRates(predictorData) + Len(predictorData))
                            \div (2 * Len(predictorData)),
         safestCity |-> [city |-> minCrimeCity.City, state |-> minCrimeCity.State,
                         rate |-> minCrimeCity.CrimeRate],
         mostDangerous |-> [city |-> maxCrimeCity.City, state |-> maxCrimeCity.State,
                            rate |-> maxCrimeCity.CrimeRate]]

UnchangedStore ==
    UNCHANGED <<users, criminals, firs, nextUserId, nextCriminalId, nextFirId, now,
                nulled, removed, backend, statsCall>>

\* registerRoutes: await crimePredictor.loadData() resolves with the rows of the file
LoadData(rows) ==
    /\ startup = "loading"
    /\ predictorData' = rows
    /\ startup' = "loaded"
    /\ UNCHANGED <<req, resp>>
    /\ UnchangedStore

\* ... or rejects, on an 'error' event of the csv parser: the error is logged and
\* the server is created all the same
LoadDataFails ==
    /\ startup = "loading"
    /\ predictorData' = <<>>
    /\ startup' = "failed"
    /\ UNCHANGED <<req, resp>>
    /\ UnchangedStore

\* ... or neither: an 'error' event of the read stream (no file) has no listener,
\* and a throw of trainModel is inside the 'end' listener; either ends the process
LoadDataEndsProcess ==
    /\ startup = "loading"
    /\ startup' = "exited"
    /\ UNCHANGED <<predictorData, req, resp>>
    /\ UnchangedStore

\* a server that listens while the dataset is still loading
ServingFromTheStart == TRUE

\* the server listens once registerRoutes has returned
Serving == startup \in {"loaded", "failed"}

\* GET /api/predict/all
GetPredictAll(by) ==
    /\ Serving
    /\ req' = [op |-> "GET /api/predict/all", by |-> by, id |-> 0, body |-> {}]
    /\ resp' = [status |-> 200, body |-> getAllPredictions]
    /\ UNCHANGED <<startup, predictorData>>
    /\ UnchangedStore

\* GET /api/predict/top-risk?limit=
GetPredictTopRisk(by, limitText) ==
    LET limit == IF GivenText(limitText) THEN parseIntSigned(limitText)
                 ELSE {DefaultLimit}
    IN  /\ Serving
        /\ req' = [op |-> "GET /api/predict/top-risk", by |-> by, id |-> 0,
                   body |-> limitText]
        /\ resp' = [status |-> 200, body |-> getTopRiskCities(limit)]
        /\ UNCHANGED <<startup, predictorData>>
        /\ UnchangedStore

\* GET /api/predict/city/:name
GetPredictCity(by, name) ==
    /\ Serving
    /\ req' = [op |-> "GET /api/predict/city/:name", by |-> by, id |-> 0, body |-> name]
    /\ resp' = IF getCityPrediction(name) = {}
               THEN [status |-> 404, body |-> "City not found"]
               ELSE [status |-> 200,
                     body |-> CHOOSE prediction \in getCityPrediction(name) : TRUE]
    /\ UNCHANGED <<startup, predictorData>>
    /\ UnchangedStore

\* GET /api/predict/distribution
GetPredictDistribution(by) ==
    /\ Serving
    /\ req' = [op |-> "GET /api/predict/distribution", by |-> by, id |-> 0, body |-> {}]
    /\ resp' = [status |-> 200, body |-> getCrimeDistribution]
    /\ UNCHANGED <<startup, predictorData>>
    /\ UnchangedStore

\* GET /api/predict/statistics
GetPredictStatistics(by) ==
    /\ Serving
    /\ req' = [op |-> "GET /api/predict/statistics", by |-> by, id |-> 0, body |-> {}]
    /\ resp' = IF predictorStatisticsThrows
               THEN [status |-> 500, body |-> "Failed to get statistics"]
               ELSE [status |-> 200, body |-> predictorStatistics]
    /\ UNCHANGED <<startup, predictorData>>
    /\ UnchangedStore

\* time passes
Tick ==
    /\ now < MaxTime
    /\ now' = now + 1
    /\ UNCHANGED <<users, criminals, firs, nextUserId, nextCriminalId, nextFirId,
                   req, resp, nulled, removed>>
    /\ UnchangedElsewhere

\* the database file becomes unreadable (disk error, file locked or removed)
BackendFails ==
    /\ backend = "up"
    /\ backend' = "down"
    /\ UNCHANGED <<users, criminals, firs, nextUserId, nextCriminalId, nextFirId, now,
                   req, resp, nulled, removed, startup, predictorData,
                   statsCall>>

\* ... and readable again
BackendRecovers ==
    /\ backend = "down"
    /\ backend' = "up"
    /\ UNCHANGED <<users, criminals, firs, nextUserId, nextCriminalId, nextFirId, now,
                   req, resp, nulled, removed, startup, predictorData,
                   statsCall>>

----------------------------------------------------------------------------
Init ==
    /\ users = <<>>
    /\ criminals = <<>>
    /\ firs = <<>>
    /\ nextUserId = 1
    /\ nextCriminalId = 1
    /\ nextFirId = 1
    /\ now = 1
    /\ req = [op |-> "none", by |-> "admin", id |-> 0, body |-> {}]
    /\ resp = [status |-> 0, body |-> {}]
    /\ nulled = {}
    /\ removed = [users |-> {}, criminals |-> {}, firs |-> {}]
    /\ backend = "up"
    /\ startup = "loading"
    /\ predictorData = <<>>
    /\ statsCall = NoStatsCall

(* The requests of a run: who sends them and what they carry *)

CriminalDrafts ==
    {CriminalDraft(<<"3", "0">>, "theft", n, "absent") : n \in {NullText, <<"F", "1">>}}
    \cup {CriminalDraft(<<"0">>, "theft", NullText, "absent")}

CriminalPatches == {{}, {<<"caseStatus", "pending">>}}

FirDrafts ==
    {FirDraft(n, c, <<"d">>) : n \in {NullText, <<"F", "1">>},
                               c \in {NullRef} \cup CriminalIds}
    \cup {FirDraft(NullText, NullRef, <<>>)}

FirPatches ==
    {{}, {<<"firNumber", <<"F", "1">>>>}} \cup {{<<"criminalId", c>>} : c \in CriminalIds}

StatsCriminalDrafts ==
    {CriminalDraft(<<"3", "0">>, c, NullText, st) :
        c \in {"theft", "fraud"}, st \in {"absent", "closed"}}

StatsCriminalPatches == {{<<"caseStatus", "pending">>}, {<<"crimeType", "fraud">>}}

StatsFirDrafts == {FirDraft(NullText, NullRef, <<"d">>)}

SearchDrafts ==
    {[CriminalDraft(<<"3", "0">>, "theft", NullText, "absent") EXCEPT !.name = <<"J", "o">>],
     [CriminalDraft(<<"3", "0">>, "theft", <<"J", "7">>, "closed")
        EXCEPT !.name = <<"A", "l">>],
     [CriminalDraft(<<"3", "0">>, "fraud", <<"F", "1">>, "closed")
        EXCEPT !.name = <<"A", "l">>]}

SearchTexts == {NullText, <<>>, <<"j">>}
SearchCrimeTypes == {"absent", "", "theft"}
SearchStatuses == {"absent", "", "closed"}

AuthUserDrafts ==
    {[username |-> u, password |-> Plain("secret1"), role |-> "absent", name |-> "Officer"] :
        u \in {"alice", "bob"}}

AuthUserPatches == {{<<"password", Plain("hunter22")>>}, {<<"isActive", FALSE>>}}

AuthUsernames == {"alice", "bob", ""}
AuthPasswords == {Plain("secret1"), Plain("hunter22"), Plain("")}

AgeTexts ==
    {<<"0">>, <<"1">>, <<"1", "2", "0">>, <<"1", "2", "1">>, <<"1", "5", "0">>,
     <<"1", "5", "1">>}

AgeDrafts == {CriminalDraft(age, "theft", NullText, "absent") : age \in AgeTexts}

\* updates that store a role, a gender or a case status outside the enumerations
EnumUserPatches ==
    {{<<"role", "guest">>}, {<<"role", "admin">>}, {<<"password", Plain("hunter22")>>}}

EnumCriminalPatches ==
    {{<<"gender", "unknown">>}, {<<"caseStatus", "archived">>},
     {<<"caseStatus", "closed">>}}

\* updates of the age: JSON numbers around the bounds, and a form field
AgePatches ==
    {{<<"age", n>>} : n \in {0, 1, SharedMaxAge, SharedMaxAge + 1}}
    \cup {{<<"age:string", <<"2", "0", "0">>>>}}

\* rows of crime_data.csv, at the rates around the thresholds of the risk levels,
\* the lowest and the highest rate twice
DataRow(city, rate) ==
    [City |-> city, State |-> "S", Population |-> 1000000, ViolentCrime |-> rate \div 5,
     PropertyCrime |-> rate, Murder |-> 1, Robbery |-> 2, Assault |-> 3, Burglary |-> 4,
     Theft |-> 5, CrimeRate |-> rate]

DataRows ==
    {DataRow(<<"A", "g", "r", "a">>, 299), DataRow(<<"B", "h", "u", "j">>, 299),
     DataRow(<<"D", "e", "l", "h", "i">>, 300), DataRow(<<"G", "a", "y", "a">>, 499),
     DataRow(<<"K", "o", "t", "a">>, 500), DataRow(<<"P", "u", "n", "e">>, 699),
     DataRow(<<"P", "u", "r", "i">>, 700), DataRow(<<"S", "u", "r", "a", "t">>, 700)}

\* the names asked for: as in the file, in another case, and one not in the file
CityNames ==
    {<<"A", "g", "r", "a">>, <<"p", "u", "n", "e">>, <<"S", "U", "R", "A", "T">>,
     <<"G", "o", "a">>}

RECURSIVE SeqsOf(_, _)
SeqsOf(rows, n) ==
    IF n = 0 THEN {<<>>}
    ELSE LET shorter == SeqsOf(rows, n - 1)
         IN  shorter \cup {Append(q, r) : q \in {p \in shorter : Len(p) = n - 1},
                                          r \in rows}

\* the files that load: one to MaxDataRows rows, no city twice
Datasets ==
    {q \in SeqsOf(DataRows, MaxDataRows) :
        /\ q # <<>>
        /\ \A i, j \in 1..Len(q) : i # j => q[i].City # q[j].City}

LimitTexts == {NullText, <<"0">>, <<"3">>, <<"5">>, <<"-", "1">>, <<"x">>}

BackendUserDrafts ==
    {[username |-> "alice", password |-> Plain("secret1"), role |-> "absent",
      name |-> "Officer"]}

ClockCriminalDrafts ==
    {CriminalDraft(<<"3", "0">>, "theft", n, "absent") : n \in {NullText, <<>>, <<"F", "1">>}}

ClockFirDrafts == {FirDraft(n, NullRef, <<"d">>) : n \in {NullText, <<>>, <<"F", "1">>}}

ClockFirPatches == {{}, {<<"description", <<"e">>>>}}

\* The users table and the two record tables share no constraint and no handler
\* reads or writes both, so a run is explored on one side or on the other.
UsersUntouched == nextUserId = 1
RecordsUntouched == nextCriminalId = 1 /\ nextFirId = 1
CriminalsUntouched == nextCriminalId = 1
FirsUntouched == nextFirId = 1

\* every route of the three tables, sent by an admin at one instant
Next ==
    \/ \E body \in UserDrafts :
          RecordsUntouched /\ nextUserId <= MaxUsers /\ PostUser("admin", body)
    \/ \E id \in UserIds, body \in UserPatches :
          \E salt \in SaltsFor(body) :
              RecordsUntouched /\ PutUser("admin", id, body, salt)
    \/ \E id \in UserIds : RecordsUntouched /\ DeleteUser("admin", id)
    \/ \E id \in CriminalIds : UsersUntouched /\ GetCriminal("admin", id)
    \/ \E body \in CriminalDrafts :
          UsersUntouched /\ nextCriminalId <= MaxCriminals /\ PostCriminal("admin", body, 0)
    \/ \E id \in CriminalIds, body \in CriminalPatches :
          UsersUntouched /\ PutCriminal("admin", id, body)
    \/ \E id \in CriminalIds : UsersUntouched /\ DeleteCriminal("admin", id)
    \/ \E id \in FirIds : UsersUntouched /\ GetFir("admin", id)
    \/ \E body \in FirDrafts :
          UsersUntouched /\ nextFirId <= MaxFirs /\ PostFir("admin", body, 0)
    \/ \E id \in FirIds, body \in FirPatches :
          UsersUntouched /\ PutFir("admin", id, body)
    \/ \E id \in FirIds : UsersUntouched /\ DeleteFir("admin", id)
    \/ UsersUntouched /\ GetStatistics("admin")

Spec == Init /\ [][Next]_vars

\* the same routes, sent by an admin or by an operator
NextRoles ==
    \/ \E by \in Requesters, body \in UserDrafts :
          RecordsUntouched /\ nextUserId <= MaxUsers /\ PostUser(by, body)
    \/ \E by \in Requesters, id \in UserIds, body \in UserPatches :
          \E salt \in SaltsFor(body) : RecordsUntouched /\ PutUser(by, id, body, salt)
    \/ \E by \in Requesters, id \in UserIds : RecordsUntouched /\ DeleteUser(by, id)
    \/ \E by \in Requesters, id \in CriminalIds :
          UsersUntouched /\ GetCriminal(by, id)
    \/ \E by \in Requesters, body \in CriminalDrafts :
          UsersUntouched /\ nextCriminalId <= MaxCriminals /\ PostCriminal(by, body, 0)
    \/ \E by \in Requesters, id \in CriminalIds :
          UsersUntouched /\ PutCriminal(by, id, {<<"caseStatus", "pending">>})
    \/ \E by \in Requesters, id \in CriminalIds :
          UsersUntouched /\ DeleteCriminal(by, id)
    \/ \E by \in Requesters : UsersUntouched /\ GetFir(by, 1)
    \/ \E by \in Requesters :
          UsersUntouched /\ nextFirId = 1
              /\ PostFir(by, FirDraft(NullText, NullRef, <<"d">>), 0)
    \/ \E by \in Requesters :
          UsersUntouched /\ PutFir(by, 1, {<<"description", <<"e">>>>})
    \/ \E by \in Requesters : UsersUntouched /\ DeleteFir(by, 1)
    \/ \E by \in Requesters : UsersUntouched /\ GetStatistics(by)

SpecRoles == Init /\ [][NextRoles]_vars

\* the record set the statistics are drawn from
NextStats ==
    \/ \E body \in StatsCriminalDrafts :
          nextCriminalId <= StatsMaxCriminals /\ PostCriminal("admin", body, 0)
    \/ \E id \in StatsCriminalIds, body \in StatsCriminalPatches :
          PutCriminal("admin", id, body)
    \/ \E id \in StatsCriminalIds : DeleteCriminal("admin", id)
    \/ \E body \in StatsFirDrafts :
          nextFirId <= StatsMaxFirs /\ PostFir("admin", body, 0)
    \/ \E id \in StatsFirIds : DeleteFir("admin", id)
    \/ GetStatistics("admin")

SpecStats == Init /\ [][NextStats]_vars

\* creations and updates of the two record tables as time passes; a run is
\* explored on the criminal records or on the FIR records
NextClock ==
    \/ \E body \in ClockCriminalDrafts, random \in Randoms :
          FirsUntouched /\ nextCriminalId <= MaxCriminals
              /\ PostCriminal("admin", body, random)
    \/ \E id \in CriminalIds, body \in CriminalPatches :
          FirsUntouched /\ PutCriminal("admin", id, body)
    \/ \E body \in ClockFirDrafts, random \in Randoms :
          CriminalsUntouched /\ nextFirId <= MaxFirs /\ PostFir("admin", body, random)
    \/ \E id \in FirIds, body \in ClockFirPatches :
          CriminalsUntouched /\ PutFir("admin", id, body)
    \/ Tick

SpecClock == Init /\ [][NextClock]_vars

\* the criminal records listed and searched as they are created and deleted
NextSearch ==
    \/ \E body \in SearchDrafts :
          nextCriminalId <= SearchMaxCriminals /\ PostCriminal("admin", body, 0)
    \/ \E id \in SearchCriminalIds : DeleteCriminal("admin", id)
    \/ \E search \in SearchTexts, crimeType \in SearchCrimeTypes,
           status \in SearchStatuses : GetCriminals("admin", search, crimeType, status)
    \/ Tick

SpecSearch == Init /\ [][NextSearch]_vars

\* the routes that answer with users, as users are created, changed and log in
NextAuth ==
    \/ \E body \in AuthUserDrafts : nextUserId <= MaxUsers /\ PostUser("admin", body)
    \/ \E id \in UserIds, body \in AuthUserPatches :
          \E salt \in SaltsFor(body) : PutUser("admin", id, body, salt)
    \/ \E username \in AuthUsernames, password \in AuthPasswords :
          Login("admin", username, password)
    \/ GetUsers("admin")
    \/ Tick

SpecAuth == Init /\ [][NextAuth]_vars

\* criminal records created at the ages around the bounds of the schema
NextAge ==
    \/ \E body \in AgeDrafts :
          nextCriminalId <= SearchMaxCriminals /\ PostCriminal("admin", body, 0)
    \/ \E id \in SearchCriminalIds : GetCriminal("admin", id)
    \/ \E id \in SearchCriminalIds : DeleteCriminal("admin", id)
    \/ GetCriminals("admin", NullText, "absent", "absent")
    \/ Tick

SpecAge == Init /\ [][NextAge]_vars

\* users and criminal records updated to values outside the enumerations, and the
\* routes that answer with them; a run is about users or about criminal records
NextEnums ==
    \/ \E body \in AuthUserDrafts :
          CriminalsUntouched /\ nextUserId <= MaxUsers /\ PostUser("admin", body)
    \/ \E id \in UserIds, body \in EnumUserPatches :
          \E salt \in SaltsFor(body) : PutUser("admin", id, body, salt)
    \/ \E username \in {"alice", "bob"} : Login("admin", username, Plain("hunter22"))
    \/ GetUsers("admin")
    \/ \E body \in StatsCriminalDrafts :
          UsersUntouched /\ nextCriminalId <= SearchMaxCriminals
              /\ PostCriminal("admin", body, 0)
    \/ \E id \in SearchCriminalIds, body \in EnumCriminalPatches :
          PutCriminal("admin", id, body)
    \/ \E id \in SearchCriminalIds : GetCriminal("admin", id)
    \/ \E status \in {"absent", "closed"} :
          GetCriminals("admin", NullText, "absent", status)
    \/ UsersUntouched /\ GetStatistics("admin")

SpecEnums == Init /\ [][NextEnums]_vars

\* criminal records created and then updated at ages around the bounds
NextAgeUpdate ==
    \/ \E body \in AgeDrafts :
          nextCriminalId <= SearchMaxCriminals /\ PostCriminal("admin", body, 0)
    \/ \E id \in SearchCriminalIds, body \in AgePatches : PutCriminal("admin", id, body)
    \/ Tick

SpecAgeUpdate == Init /\ [][NextAgeUpdate]_vars

\* getStatistics statement by statement, with writes of criminal records committing
\* in between
NextInterleaved ==
    \/ \E body \in StatsCriminalDrafts :
          nextCriminalId <= InterleavedMaxCriminals /\ PostCriminal("admin", body, 0)
    \/ \E id \in InterleavedCriminalIds : DeleteCriminal("admin", id)
    \/ StatisticsBegin
    \/ \E query \in {"count", "countFirs", "findMany"} : StatisticsRead("admin", query)
    \/ StatisticsGroupByCrimeType("admin")
    \/ StatisticsGroupByCaseStatus("admin")

SpecInterleaved == Init /\ [][NextInterleaved]_vars

\* the dataset loaded at startup and the prediction routes served after it
NextPredict ==
    \/ \E rows \in Datasets : LoadData(rows)
    \/ LoadDataFails
    \/ LoadDataEndsProcess
    \/ GetPredictAll("admin")
    \/ \E limitText \in LimitTexts : GetPredictTopRisk("admin", limitText)
    \/ GetPredictStatistics("admin")
    \/ \E name \in CityNames : GetPredictCity("admin", name)
    \/ GetPredictDistribution("admin")

SpecPredict == Init /\ [][NextPredict]_vars

\* creations, updates and deletes while the database fails and recovers; a run is
\* explored on one table
NextBackend ==
    \/ \E body \in BackendUserDrafts :
          RecordsUntouched /\ nextUserId <= MaxUsers /\ PostUser("admin", body)
    \/ \E id \in UserIds :
          RecordsUntouched /\ PutUser("admin", id, {<<"isActive", FALSE>>}, 0)
    \/ \E id \in UserIds : RecordsUntouched /\ DeleteUser("admin", id)
    \/ \E id \in CriminalIds :
          UsersUntouched /\ FirsUntouched /\ GetCriminal("admin", id)
    \/ \E body \in ClockCriminalDrafts :
          UsersUntouched /\ FirsUntouched /\ nextCriminalId <= MaxCriminals
              /\ PostCriminal("admin", body, 0)
    \/ \E id \in CriminalIds :
          UsersUntouched /\ FirsUntouched
              /\ PutCriminal("admin", id, {<<"caseStatus", "pending">>})
    \/ \E id \in CriminalIds :
          UsersUntouched /\ FirsUntouched /\ DeleteCriminal("admin", id)
    \/ \E body \in StatsFirDrafts :
          UsersUntouched /\ CriminalsUntouched /\ nextFirId <= MaxFirs
              /\ PostFir("admin", body, 0)
    \/ \E id \in FirIds :
          UsersUntouched /\ CriminalsUntouched
              /\ PutFir("admin", id, {<<"description", <<"e">>>>})
    \/ \E id \in FirIds : UsersUntouched /\ CriminalsUntouched /\ DeleteFir("admin", id)
    \/ BackendFails
    \/ BackendRecovers

SpecBackend == Init /\ [][NextBackend]_vars

----------------------------------------------------------------------------
(* Claims *)

\* a step that answers a request (every step but the passing of time and a change
\* of the database's condition)
Answers(op) == now' = now /\ backend' = backend /\ req'.op = op

Answered(op, status) == req.op = op /\ resp.status = status

RECURSIVE SumCounts(_)
SumCounts(groups) ==
    IF groups = <<>> THEN 0 ELSE Head(groups).count + SumCounts(Tail(groups))

\* C1: deleting criminal record X succeeds whenever X exists and removes no FIR
\* record: every FIR record is still there and still readable, unchanged except
\* that a criminalId equal to X has become NULL.
C1_DeleteCriminalNullsReference ==
    [][Answers("DELETE /api/criminals/:id") /\ req'.id \in DOMAIN criminals =>
        /\ resp'.status = 200
        /\ req'.id \notin DOMAIN criminals'
        /\ DOMAIN firs' = DOMAIN firs
        /\ \A f \in DOMAIN firs :
              /\ firs'[f] = [firs[f] EXCEPT
                               !.criminalId = IF @ = req'.id THEN NullRef ELSE @]
              /\ firs[f].criminalId = req'.id => firs'[f].criminalId = NullRef
              /\ getFirRecord(f)' # {}]_vars

\* C1 witness: a criminal record was just deleted while a FIR record referred to it
C1_Witness ==
    /\ Answered("DELETE /api/criminals/:id", 200)
    /\ nulled # {}
    /\ \A f \in nulled : f \in DOMAIN firs /\ firs[f].criminalId = NullRef

\* C2: every stored password is a bcrypt string, never the text that was supplied
C2_PasswordsStoredHashed ==
    \A u \in DOMAIN users : users[u].password[1] = "$2b$"

\* C3: a request sent by an operator leaves every existing record of every table
\* in place and unchanged (only an admin's request modifies or deletes)
C3_OperatorNeverModifies ==
    [][now' = now /\ req'.by = "operator" =>
        /\ \A u \in DOMAIN users : u \in DOMAIN users' /\ users'[u] = users[u]
        /\ \A c \in DOMAIN criminals :
              c \in DOMAIN criminals' /\ criminals'[c] = criminals[c]
        /\ \A f \in DOMAIN firs : f \in DOMAIN firs' /\ firs'[f] = firs[f]]_vars

\* C4: in every state of the record set the counts of each distribution of
\* getStatistics add up to totalCriminals
C4_DistributionsSumToTotal ==
    /\ SumCounts(getStatistics.crimeTypeDistribution) = getStatistics.totalCriminals
    /\ SumCounts(getStatistics.caseStatusDistribution) = getStatistics.totalCriminals

\* C4 witness: three records, two of them in one group
C4_Witness ==
    /\ Cardinality(DOMAIN criminals) = 3
    /\ \E i \in 1..Len(getStatistics.crimeTypeDistribution) :
          getStatistics.crimeTypeDistribution[i].count = 2
    /\ Len(getStatistics.caseStatusDistribution) >= 2

\* the statistics of the record set, counted record by record
CountWhere(field, value) ==
    Cardinality({c \in DOMAIN criminals : criminals[c][field] = value})

ValuesOf(field) == {criminals[c][field] : c \in DOMAIN criminals}

GroupsOf(distribution) == {distribution[i] : i \in 1..Len(distribution)}

\* C5: the answer to GET /api/statistics is the statistics of the record set as
\* it is now: the four counts, and in each distribution exactly one group for
\* each value that occurs, with its number of occurrences
C5_StatisticsMatchRecordSet ==
    req.op = "GET /api/statistics" =>
        /\ resp.body.totalCriminals = Cardinality(DOMAIN criminals)
        /\ resp.body.activeFirs = Cardinality(DOMAIN firs)
        /\ resp.body.solvedCases = CountWhere("caseStatus", "closed")
        /\ resp.body.pendingCases = CountWhere("caseStatus", "pending")
        /\ Len(resp.body.crimeTypeDistribution) = Cardinality(ValuesOf("crimeType"))
        /\ GroupsOf(resp.body.crimeTypeDistribution)
             = {[type |-> v, count |-> CountWhere("crimeType", v)] :
                    v \in ValuesOf("crimeType")}
        /\ Len(resp.body.caseStatusDistribution) = Cardinality(ValuesOf("caseStatus"))
        /\ GroupsOf(resp.body.caseStatusDistribution)
             = {[status |-> v, count |-> CountWhere("caseStatus", v)] :
                    v \in ValuesOf("caseStatus")}
        /\ \A g \in GroupsOf(resp.body.crimeTypeDistribution) : g.count >= 1
        /\ \A g \in GroupsOf(resp.body.caseStatusDistribution) : g.count >= 1

\* C5 witness: statistics asked for after records were created, changed and
\* deleted, over the statuses open, pending and closed
C5_Witness ==
    /\ req.op = "GET /api/statistics"
    /\ removed.criminals # {}
    /\ resp.body.solvedCases = 1
    /\ resp.body.pendingCases = 1
    /\ resp.body.totalCriminals = 2
    /\ resp.body.activeFirs = 1

\* C6: a record just created is read back, by its identifier, equal to what the
\* create returned (for a user: equal once the password is stripped from both),
\* and an identifier never generated reads as absent, with status 404
C6_InsertThenGet ==
    /\ Answered("POST /api/criminals", 201) => getCriminalRecord(resp.body.id) = {resp.body}
    /\ Answered("POST /api/firs", 201) => getFirRecord(resp.body.id) = {resp.body}
    /\ Answered("POST /api/users", 201) =>
          {WithoutPassword(u) : u \in getUser(resp.body.id)} = {resp.body}
    /\ \A id \in nextCriminalId..(MaxCriminals + 1) : getCriminalRecord(id) = {}
    /\ \A id \in nextFirId..(MaxFirs + 1) : getFirRecord(id) = {}
    /\ \A id \in nextUserId..(MaxUsers + 1) : getUser(id) = {}
    /\ req.op = "GET /api/criminals/:id" /\ req.id >= nextCriminalId => resp.status = 404
    /\ req.op = "GET /api/firs/:id" /\ req.id >= nextFirId => resp.status = 404

\* C6 witness: a FIR record that refers to a criminal record was just created
C6_Witness ==
    /\ Answered("POST /api/firs", 201)
    /\ resp.body.criminalId # NullRef
    /\ resp.body.firNumber = generateFirNumber(0)

C8_DeleteReportsRemoval ==
    [][/\ Answers("DELETE /api/users/:id") =>
            /\ resp'.status = IF req'.id \in DOMAIN users THEN 200 ELSE 404
            /\ users' = [u \in DOMAIN users \ {req'.id} |-> users[u]]
            /\ resp'.status = 404 => UNCHANGED <<users, criminals, firs>>
       /\ Answers("DELETE /api/criminals/:id") =>
            /\ resp'.status = IF req'.id \in DOMAIN criminals THEN 200 ELSE 404
            /\ criminals' = [c \in DOMAIN criminals \ {req'.id} |-> criminals[c]]
            /\ resp'.status = 404 => UNCHANGED <<users, criminals, firs>>
       /\ Answers("DELETE /api/firs/:id") =>
            /\ resp'.status = IF req'.id \in DOMAIN firs THEN 200 ELSE 404
            /\ firs' = [f \in DOMAIN firs \ {req'.id} |-> firs[f]]
            /\ resp'.status = 404 => UNCHANGED <<users, criminals, firs>>]_vars

\* C8 witness: the second delete of the same FIR record
C8_Witness ==
    /\ Answered("DELETE /api/firs/:id", 404)
    /\ req.id \in removed.firs

\* C9: an update of an existing criminal or FIR record with an empty patch leaves
\* every field of it but updatedAt, and every other record, as they were
C9_EmptyPatchTouchesOnlyUpdatedAt ==
    [][/\ Answers("PUT /api/criminals/:id") /\ req'.body = {}
              /\ req'.id \in DOMAIN criminals =>
            /\ resp'.status = 200
            /\ criminals' = [criminals EXCEPT
                               ![req'.id].updatedAt = criminals'[req'.id].updatedAt]
            /\ UNCHANGED <<users, firs>>
       /\ Answers("PUT /api/firs/:id") /\ req'.body = {} /\ req'.id \in DOMAIN firs =>
            /\ resp'.status = 200
            /\ firs' = [firs EXCEPT ![req'.id].updatedAt = firs'[req'.id].updatedAt]
            /\ UNCHANGED <<users, criminals>>]_vars

\* C9 witness: an empty patch was applied to a record created earlier and changed
\* since
C9_Witness ==
    /\ Answered("PUT /api/criminals/:id", 200)
    /\ req.body = {}
    /\ criminals[req.id].caseStatus = "pending"
    /\ criminals[req.id].updatedAt > criminals[req.id].createdAt

\* what a patch asks of the row it is merged into
Carries(row, body) == \A kv \in body : row[kv[1]] = kv[2]

\* the same for a user, whose password is stored as the handler hashed it
CarriesUser(row, body) ==
    \A kv \in body :
        IF kv[1] = "password" /\ Truthy(kv[2])
        THEN bcryptCompare(kv[2], row.password)
        ELSE row[kv[1]] = kv[2]

UsernameClash(id, body) ==
    \E kv \in body : kv[1] = "username"
        /\ \E u \in DOMAIN users : u # id /\ users[u].username = kv[2]

FirNumberClash(id, body) ==
    \E kv \in body : kv[1] = "firNumber"
        /\ \E f \in DOMAIN firs : f # id /\ firs[f].firNumber = kv[2]

DanglingReference(body) ==
    \E kv \in body : kv[1] = "criminalId" /\ kv[2] # NullRef /\ kv[2] \notin DOMAIN criminals

Writes(table) ==
    IF table = "users" THEN {"PUT /api/users/:id", "DELETE /api/users/:id"}
    ELSE IF table = "criminals"
    THEN {"PUT /api/criminals/:id", "DELETE /api/criminals/:id"}
    ELSE {"PUT /api/firs/:id", "DELETE /api/firs/:id"}

\* C11: an update or delete of an existing record that is sent while the database
\* fails is never answered 404 (not found), and the record stays
C11_IoFailureNeverNotFound ==
    [][backend = "down" /\ now' = now /\ backend' = backend =>
        /\ req'.op \in Writes("users") /\ req'.id \in DOMAIN users =>
              resp'.status # 404
        /\ req'.op \in Writes("criminals") /\ req'.id \in DOMAIN criminals =>
              resp'.status # 404
        /\ req'.op \in Writes("firs") /\ req'.id \in DOMAIN firs =>
              resp'.status # 404]_vars

UniqueFirNumbers ==
    \A f, g \in DOMAIN firs : f # g => firs[f].firNumber # firs[g].firNumber

\* C12: no two FIR records ever share a report number; a create or an update of a
\* FIR record whose number is that of another FIR record is refused (create: 500,
\* update: 404) and leaves the tables as they were
C12_FirNumbersStayUnique ==
    /\ []UniqueFirNumbers
    /\ [][/\ Answers("POST /api/firs")
                /\ (\/ FirNumberTaken(req'.body.firNumber, {})
                    \/ resp'.status = 500) =>
                /\ resp'.status = 500
                /\ UNCHANGED <<users, criminals, firs>>
          /\ Answers("PUT /api/firs/:id") /\ FirNumberClash(req'.id, req'.body) =>
                /\ resp'.status = 404
                /\ UNCHANGED <<users, criminals, firs>>]_vars

\* C12 witness: a create that supplied no number was refused because the number
\* generated for it is already that of a FIR record
C12_Witness ==
    /\ Answered("POST /api/firs", 500)
    /\ req.body.firNumber = NullText
    /\ req.body.criminalId = NullRef
    /\ FirNumberTaken(generateFirNumber(0), {})

\* a text of the form FIR-<4 digits>-<6 digits>
HasReportNumberForm(text) ==
    /\ Len(text) = 15
    /\ SubSeq(text, 1, 4) = <<"F", "I", "R", "-">>
    /\ \A i \in 5..8 : IsDigit(text[i])
    /\ text[9] = "-"
    /\ \A i \in 10..15 : IsDigit(text[i])

\* the number a create must give the record: the one supplied if there is one
CarriesReportNumber(row, supplied) ==
    IF supplied # NullText /\ supplied # <<>>
    THEN row.firNumber = supplied
    ELSE HasReportNumberForm(row.firNumber)

\* C13: a criminal record or FIR record just created carries, in the table and in
\* the answer, the report number supplied with it if that is present and not
\* empty, and otherwise a text of the form FIR-<4-digit year>-<6 digits>
C13_ReportNumberSuppliedOrGenerated ==
    [][/\ Answers("POST /api/criminals") /\ resp'.status = 201 =>
            /\ CarriesReportNumber(criminals'[resp'.body.id], req'.body.firNumber)
            /\ CarriesReportNumber(resp'.body, req'.body.firNumber)
       /\ Answers("POST /api/firs") /\ resp'.status = 201 =>
            /\ CarriesReportNumber(firs'[resp'.body.id], req'.body.firNumber)
            /\ CarriesReportNumber(resp'.body, req'.body.firNumber)]_vars

\* C13 witness: a criminal record created with an empty report number got the
\* lowest number the generator can draw, after one created with a number supplied
C13_Witness ==
    /\ Answered("POST /api/criminals", 201)
    /\ req.body.firNumber = <<>>
    /\ resp.body.firNumber = <<"F", "I", "R", "-", "2", "0", "2", "5", "-",
                               "1", "0", "0", "0", "0", "0">>

\* a list holds every criminal record once, the latest created first
IsFullList(rows) ==
    /\ Len(rows) = Cardinality(DOMAIN criminals)
    /\ {rows[i] : i \in 1..Len(rows)}
         = {transformCriminalRecord(criminals[c]) : c \in DOMAIN criminals}
    /\ \A i \in 1..(Len(rows) - 1) : rows[i].createdAt >= rows[i + 1].createdAt

\* C14: a search of the criminal records with no text (empty or absent) and every
\* filter empty or absent gives the list of all of them, in the order of the list,
\* from the store and at GET /api/criminals
C14_EmptySearchIsList ==
    /\ IsFullList(getAllCriminalRecords)
    /\ \A query \in {<<>>, NullText}, crimeType \in {"", "absent"},
          status \in {"", "absent"} :
          LET filters == [crimeType |-> crimeType, status |-> status]
          IN  /\ ~searchCriminalThrows(query, filters)
              /\ searchCriminalRecords(query, filters) = getAllCriminalRecords
    /\ (/\ req.op = "GET /api/criminals"
        /\ ~GivenText(req.body.search)
        /\ req.body.crimeType \in {"", "absent"}
        /\ req.body.status \in {"", "absent"}) =>
          resp.status = 200 /\ resp.body = getAllCriminalRecords

\* C14 witness: a search with empty text and empty filters was answered with two
\* records, the later created first
C14_Witness ==
    /\ req.op = "GET /api/criminals"
    /\ req.body = [search |-> <<>>, crimeType |-> "", status |-> ""]
    /\ Len(resp.body) = 2
    /\ resp.body[1].id = 2
    /\ resp.body[1].createdAt > resp.body[2].createdAt

\* the records a search is to return
Matches(row, search, crimeType, status) ==
    /\ \/ ~GivenText(search)
       \/ ContainsInsensitive(row.name, search)
       \/ ContainsInsensitive(row.firNumber, search)
    /\ crimeType \in {"", "absent"} \/ row.crimeType = crimeType
    /\ status \in {"", "absent"} \/ row.caseStatus = status

\* C15: GET /api/criminals answers exactly the criminal records whose name or
\* report number contains the search text (letter case ignored), if one is given,
\* and whose crime type and status equal each filter given
C15_SearchReturnsMatches ==
    req.op = "GET /api/criminals" =>
        /\ resp.status = 200
        /\ {resp.body[i].id : i \in 1..Len(resp.body)}
             = {c \in DOMAIN criminals :
                   Matches(criminals[c], req.body.search, req.body.crimeType,
                           req.body.status)}
        /\ Len(resp.body) = Cardinality({resp.body[i].id : i \in 1..Len(resp.body)})

\* the users an answer of a user route carries
UsersAnswered ==
    IF resp.status \notin {200, 201} THEN {}
    ELSE IF req.op = "POST /api/auth/login" THEN {resp.body.user}
    ELSE IF req.op = "GET /api/users" THEN {resp.body[i] : i \in 1..Len(resp.body)}
    ELSE IF req.op \in {"POST /api/users", "PUT /api/users/:id"} THEN {resp.body}
    ELSE {}

\* C16: no user carried by an answer of login, list users, create user or update
\* user has a password field, and every stored user keeps the password it was
\* given: the one of the create, or the hash of the one of the last update
C16_NoPasswordInResponses ==
    /\ \A u \in UsersAnswered : "password" \notin DOMAIN u /\ u.id \in DOMAIN users
    /\ \A u \in DOMAIN users :
          \/ users[u].password = Plain("secret1")
          \/ bcryptCompare(Plain("hunter22"), users[u].password)
    /\ Answered("PUT /api/users/:id", 200) /\ Has(req.body, "password") =>
          bcryptCompare(ValueOf(req.body, "password"), users[req.id].password)

\* C16 witness: a user whose password was changed has logged in with it, while
\* another user exists
C16_Witness ==
    /\ Answered("POST /api/auth/login", 200)
    /\ UsersAnswered # {}
    /\ Cardinality(DOMAIN users) = 2
    /\ \A u \in UsersAnswered : users[u.id].lastLogin # NullTime

\* C17: POST /api/criminals, of a draft valid in every other field, creates the
\* record exactly when the age is in 1..150, and answers 400 otherwise
C17_AgeAcceptedUpTo150 ==
    req.op = "POST /api/criminals" =>
        IF parseInt(req.body.age) \in MinAge..SharedMaxAge
        THEN resp.status = 201 /\ resp.body.age = parseInt(req.body.age)
        ELSE resp.status = 400

\* the limit of a request, when it is an integer
LimitOf(text) == IF GivenText(text) THEN parseIntSigned(text) ELSE {DefaultLimit}

Min(a, b) == IF a < b THEN a ELSE b
Max(a, b) == IF a > b THEN a ELSE b

\* C18: for every integer limit, GET /api/predict/top-risk answers the first
\* min(max(limit, 0), N) rows of the predictions sorted by falling crime rate
C18_TopRiskIsPrefix ==
    req.op = "GET /api/predict/top-risk" /\ LimitOf(req.body) # {} =>
        LET limit == CHOOSE n \in LimitOf(req.body) : TRUE
        IN  /\ resp.status = 200
            /\ resp.body = SubSeq(getAllPredictions, 1, Min(Max(limit, 0), Len(predictorData)))
            /\ \A i \in 1..(Len(resp.body) - 1) :
                  resp.body[i].crimeRate >= resp.body[i + 1].crimeRate

\* C19: once the dataset has failed to load no request is served, and a request to
\* a prediction route is never answered with an error
C19_NoRequestAfterFailedLoad ==
    /\ startup = "failed" => req.op = "none"
    /\ req.op \in {"GET /api/predict/all", "GET /api/predict/top-risk",
                   "GET /api/predict/statistics"} => resp.status = 200

\* the count of the group of closed cases in a case status distribution
ClosedGroupCount(groups) ==
    SumCounts(SelectSeq(groups, LAMBDA g : g.status = "closed"))

\* the answer of getStatistics describes one single state
DescribesOneState(body) ==
    /\ SumCounts(body.crimeTypeDistribution) = body.totalCriminals
    /\ SumCounts(body.caseStatusDistribution) = body.totalCriminals
    /\ body.solvedCases = ClosedGroupCount(body.caseStatusDistribution)

\* C20: a getStatistics call between whose statements creates and deletes of
\* criminal records commit still answers a result that describes one single state
C20_InterleavedStatisticsOneState ==
    Answered("GET /api/statistics", 200) => DescribesOneState(resp.body)

\* C20, amended: each part of the answer describes the record set as its own
\* statement saw it (totalCriminals the count, solvedCases the closed rows of
\* findMany, each distribution the groups of its groupBy), and the answer
\* describes one single state whenever all the statements saw the same record set
C20_EachPartOfItsOwnStatement ==
    [][statsCall.pc = "groupByCaseStatus" /\ resp'.status = 200
       /\ Answers("GET /api/statistics") =>
           LET body == resp'.body
               seen == statsCall.seen
           IN  /\ body.totalCriminals = Cardinality(DOMAIN seen.count)
               /\ body.solvedCases =
                     Cardinality({c \in DOMAIN seen.findMany :
                                     seen.findMany[c].caseStatus = "closed"})
               /\ SumCounts(body.crimeTypeDistribution) =
                     Cardinality(DOMAIN seen.crimeType)
               /\ SumCounts(body.caseStatusDistribution) = Cardinality(DOMAIN criminals)
               /\ ClosedGroupCount(body.caseStatusDistribution) =
                     Cardinality({c \in DOMAIN criminals :
                                     criminals[c].caseStatus = "closed"})
               /\ (seen.count = criminals /\ seen.findMany = criminals
                   /\ seen.crimeType = criminals => DescribesOneState(body))]_statsCall

\* a call is answered after a closed record was created between its findMany and
\* its last groupBy, and its parts disagree
C20_Witness ==
    /\ Answered("GET /api/statistics", 200)
    /\ resp.body.totalCriminals >= 1
    /\ resp.body.solvedCases < ClosedGroupCount(resp.body.caseStatusDistribution)
    /\ SumCounts(resp.body.crimeTypeDistribution) # resp.body.totalCriminals

\* C21: after any creates and updates of criminal records every stored record has
\* an age of at least 1 and at most 150
C21_StoredAgeWithinBounds ==
    \A c \in DOMAIN criminals :
        criminals[c].age >= MinAge /\ criminals[c].age <= SharedMaxAge

\* the criminal records an answer carries
CriminalsAnswered ==
    IF resp.status \notin {200, 201} THEN {}
    ELSE IF req.op = "GET /api/criminals" THEN {resp.body[i] : i \in 1..Len(resp.body)}
    ELSE IF req.op \in {"GET /api/criminals/:id", "POST /api/criminals",
                        "PUT /api/criminals/:id"} THEN {resp.body}
    ELSE {}

\* the value returned for a stored one: itself if in range, the default otherwise
ReturnedFor(returned, stored, range, default) ==
    /\ returned \in range
    /\ returned = IF stored \in range THEN stored ELSE default

\* C22: every user and criminal record the store returns has its role, gender and
\* case status within the enumeration, whatever is stored: a stored value out of
\* range is returned as the default (operator, other, open)
C22_ReturnedEnumsInRange ==
    /\ \A u \in UsersAnswered :
          ReturnedFor(u.role, users[u.id].role, UserRoles, "operator")
    /\ \A c \in CriminalsAnswered :
          /\ ReturnedFor(c.gender, criminals[c.id].gender, Genders, "other")
          /\ ReturnedFor(c.caseStatus, criminals[c.id].caseStatus, CaseStatuses, "open")

\* the list of criminal records is answered while a stored gender and a stored
\* case status are out of range
C22_Witness ==
    /\ Answered("GET /api/criminals", 200)
    /\ \E c \in CriminalsAnswered : criminals[c.id].gender \notin Genders
    /\ \E c \in CriminalsAnswered : criminals[c.id].caseStatus \notin CaseStatuses

\* a user whose stored role is out of range logs in
C22_WitnessUser ==
    /\ Answered("POST /api/auth/login", 200)
    /\ \E u \in UsersAnswered : users[u.id].role \notin UserRoles

\* the number of records of the listing whose case status is s
ListedWith(s) ==
    Len(SelectSeq(getAllCriminalRecords, LAMBDA c : c.caseStatus = s))

\* the count a case status distribution reports for s, 0 if it has no group for s
ReportedFor(groups, s) == SumCounts(SelectSeq(groups, LAMBDA g : g.status = s))

\* C23: the statistics answered agree with the listing of the criminal records:
\* the count of each case status in caseStatusDistribution (0 without a group) is
\* the number of listed records of that status, and solvedCases and pendingCases
\* are the numbers of listed records that are closed and pending
C23_StatisticsAgreeWithListing ==
    Answered("GET /api/statistics", 200) =>
        /\ \A s \in CaseStatuses :
              ReportedFor(resp.body.caseStatusDistribution, s) = ListedWith(s)
        /\ resp.body.solvedCases = ListedWith("closed")
        /\ resp.body.pendingCases = ListedWith("pending")

\* every reference of a FIR record is null or names a criminal record in the table
ReferencesResolve ==
    \A f \in DOMAIN firs :
        firs[f].criminalId = NullRef \/ firs[f].criminalId \in DOMAIN criminals

\* the request answered names a criminal record that is not in the table
NamesMissingCriminal(request) ==
    \/ /\ request.op = "POST /api/firs"
       /\ request.body.criminalId # NullRef
       /\ request.body.criminalId \notin DOMAIN criminals
    \/ /\ request.op = "PUT /api/firs/:id"
       /\ Has(request.body, "criminalId")
       /\ ValueOf(request.body, "criminalId") \notin DOMAIN criminals \cup {NullRef}

\* C24: the criminalId of every FIR record is null or the identifier of a criminal
\* record that exists, and a create or an update of a FIR record that names a
\* criminal record that does not exist leaves the FIR records as they were
C24_ReferencesAlwaysResolve ==
    /\ []ReferencesResolve
    /\ [][NamesMissingCriminal(req') => firs' = firs]_firs

\* an update of an existing FIR record to a criminal record that was deleted has
\* been refused
C24_Witness ==
    /\ Answered("PUT /api/firs/:id", 404)
    /\ req.id \in DOMAIN firs
    /\ NamesMissingCriminal(req)
    /\ ValueOf(req.body, "criminalId") \in removed.criminals

\* the users that were created with this username and password and not modified
\* since: the password is stored as POST /api/users stored it
CreatedWith(username, password) ==
    {u \in DOMAIN users : /\ users[u].username = username
                          /\ users[u].password = password
                          /\ users[u].isActive}

\* C25: a user created through POST /api/users with a username and a password,
\* active and not modified since, logs in with them: the login is answered 200
\* with that user
C25_CreatedUserCanLogIn ==
    req.op = "POST /api/auth/login" =>
        \A u \in CreatedWith(req.body.username, req.body.password) :
            resp.status = 200 /\ resp.body.user.id = u

\* the stored password is a hash of the supplied one
Verifies(password, stored) == \E salt \in Salts : stored = bcryptHash(password, salt)

PredictionRoutes ==
    {"GET /api/predict/all", "GET /api/predict/top-risk", "GET /api/predict/city/:name",
     "GET /api/predict/distribution", "GET /api/predict/statistics"}

\* C27: a request to a prediction route is served only once the load of the
\* dataset has settled (resolved, or rejected and caught), and the load runs once:
\* after it has settled neither its outcome nor the rows change
C27_NoPredictionBeforeLoadSettles ==
    /\ [](req.op \in PredictionRoutes => startup \in {"loaded", "failed"})
    /\ [][startup # "loading" =>
              startup' = startup /\ predictorData' = predictorData]_<<startup,
                                                                      predictorData>>

\* all predictions were answered after a dataset of several rows had loaded
C27_Witness ==
    /\ Answered("GET /api/predict/all", 200)
    /\ startup = "loaded"
    /\ Len(resp.body) >= 2
    /\ Len(resp.body) = Len(predictorData)

\* the risk level the fixed thresholds give a rate
ThresholdLevel(rate) ==
    CASE rate < 300 -> "Low"
      [] rate >= 300 /\ rate < 500 -> "Medium"
      [] rate >= 500 /\ rate < 700 -> "High"
      [] rate >= 700 -> "Critical"

Rank(risk) == CHOOSE i \in 1..4 : RiskLevels[i] = risk

\* the groups of the distribution that list a city
GroupsListing(city) ==
    {i \in 1..4 : \E j \in 1..Len(getCrimeDistribution[i].cities) :
                      getCrimeDistribution[i].cities[j] = city}

TimesListed(groups, city) ==
    SumCounts([i \in 1..Len(groups) |->
                 [count |-> Len(SelectSeq(groups[i].cities, LAMBDA c : c = city))]])

\* C29: the distribution answered has the four groups Low, Medium, High, Critical
\* in this order, empty ones included; the count of each group is the length of
\* its list of cities, every row of the dataset is listed once, in the group of
\* its level, and the counts add up to the totalCities of the statistics
C29_DistributionFourGroups ==
    Answered("GET /api/predict/distribution", 200) =>
        /\ [i \in 1..Len(resp.body) |-> resp.body[i].riskLevel]
             = <<"Low", "Medium", "High", "Critical">>
        /\ \A i \in 1..Len(resp.body) : resp.body[i].count = Len(resp.body[i].cities)
        /\ \A i \in 1..Len(predictorData) :
              /\ TimesListed(resp.body, predictorData[i].City) = 1
              /\ \E j \in 1..Len(resp.body[Rank(getRiskLevel(predictorData[i].CrimeRate))]
                                   .cities) :
                    resp.body[Rank(getRiskLevel(predictorData[i].CrimeRate))].cities[j]
                        = predictorData[i].City
        /\ SumCounts(resp.body) = Len(predictorData)
        /\ ~predictorStatisticsThrows =>
              SumCounts(resp.body) = predictorStatistics.totalCities

\* a distribution was answered with a group of no city and a group of two
C29_Witness ==
    /\ Answered("GET /api/predict/distribution", 200)
    /\ \E i \in 1..4 : resp.body[i].count = 0
    /\ \E i \in 1..4 : resp.body[i].count = 2
    /\ Len(predictorData) = 3

\* the first row of the dataset, in the order of the file, that has this rate
FirstWithRate(rate) ==
    predictorData[CHOOSE i \in 1..Len(predictorData) :
                     /\ predictorData[i].CrimeRate = rate
                     /\ \A j \in 1..(i - 1) : predictorData[j].CrimeRate # rate]

\* C30: over a loaded dataset of N >= 1 rows the statistics answered report
\* totalCities = N, as mostDangerous the rate of the first row of all predictions
\* and as safestCity the rate of their last row, the former no lower than the
\* latter; of several rows at the extreme rate, the first of the file is reported
C30_StatisticsExtremes ==
    Answered("GET /api/predict/statistics", 200) =>
        LET N == Len(predictorData)
            stats == resp.body
        IN  /\ N >= 1
            /\ stats.totalCities = N
            /\ stats.mostDangerous.rate = getAllPredictions[1].crimeRate
            /\ stats.safestCity.rate = getAllPredictions[N].crimeRate
            /\ stats.safestCity.rate <= stats.mostDangerous.rate
            /\ stats.mostDangerous.city = FirstWithRate(stats.mostDangerous.rate).City
            /\ stats.safestCity.city = FirstWithRate(stats.safestCity.rate).City

\* statistics were answered over a file in which two rows have the highest rate
\* and a third a lower one
C30_Witness ==
    /\ Answered("GET /api/predict/statistics", 200)
    /\ Len(predictorData) = 3
    /\ Cardinality({i \in 1..3 :
                      predictorData[i].CrimeRate = resp.body.mostDangerous.rate}) = 2
    /\ resp.body.safestCity.rate < resp.body.mostDangerous.rate

====
